---- MODULE Spec2Model ----
(* A model of the 2-opt TSP heuristic of TwoOpt.ipynb: the TSP base class    *)
(* (distance matrix, route cache, save / update / optimise), the swap        *)
(* primitive and the TwoOpt engine (_optimise / _improve).                   *)
(* Python lists are 0-based; TLA+ sequences are 1-based: position p of a     *)
(* Python list is element p + 1 of the sequence that models it.              *)
EXTENDS Integers, Sequences, FiniteSets, TLC

(***************************************************************************)
(* Bounds of the model.                                                    *)
(***************************************************************************)
\* number of nodes of the generated distance matrices
NumNodes == 5
\* longest list handed to swap when it is checked on its own
MaxLen == 4
\* the cost a caller writes with a direct save: the 16 of optimise's doctest
SaveCost == 16

VARIABLES
  edges,           \* TSP.edges: the global cost matrix
  routes,          \* TSP.routes: the global route cache, key -> [path, cost]
  initial_path,    \* self.initial_path, per instance
  fast,            \* self.fast, per instance
  heuristic_path,  \* self.heuristic_path, per instance
  heuristic_cost,  \* self.heuristic_cost, per instance
  pc,              \* per instance: "idle", or where the running call stands
  bestPath,        \* the local bestPath of a running _optimise, per instance
  size,            \* the local size of a running _optimise, per instance
  run,             \* history of the running / last engine run, per instance
  lastCall,        \* history: the most recent call, its outcome and result
  engineRuns,      \* history: the keys optimise() has entered the engine for
  call             \* a call of a pure function: its arguments and its result

vars == <<edges, routes, initial_path, fast, heuristic_path, heuristic_cost,
          pc, bestPath, size, run, lastCall, engineRuns, call>>

Instances == DOMAIN initial_path

(***************************************************************************)
(* Python helpers.                                                         *)
(***************************************************************************)
Min(a, b) == IF a < b THEN a ELSE b
Max(a, b) == IF a < b THEN b ELSE a

\* path[p] for a 0-based p inside the list
At(path, p) == path[p + 1]

\* a slice bound k of a list of length n, as Python normalises it
PyBound(k, n) == IF k < 0 THEN Max(k + n, 0) ELSE Min(k, n)

\* path[lo:hi]
PySlice(path, lo, hi) ==
  LET a == PyBound(lo, Len(path))
      b == PyBound(hi, Len(path))
  IN  IF a >= b THEN << >> ELSE [q \in 1..(b - a) |-> path[a + q]]

\* list(reversed(path))
reversed(path) == [q \in 1..Len(path) |-> path[Len(path) + 1 - q]]

\* sorted(path)
sorted(path) == SortSeq(path, LAMBDA a, b : a < b)

\* str(list of ints): "[0, 1, 2]"
RECURSIVE StrItems(_)
StrItems(s) ==
  IF s = << >> THEN ""
  ELSE IF Len(s) = 1 THEN ToString(s[1])
  ELSE ToString(s[1]) \o ", " \o StrItems(Tail(s))

str(s) == "[" \o StrItems(s) \o "]"

\* mutation: the key keeps the order of the path
RouteKeyUnsorted(path) == str(path)

\* the cache key of a path: str(sorted(path))
RouteKey(path) == str(sorted(path))

(***************************************************************************)
(* Distance matrices.                                                      *)
(***************************************************************************)
crossRows == << <<0, 2, 3, 2>>, <<2, 0, 2, 3>>, <<3, 2, 0, 2>>, <<2, 3, 2, 0>> >>
cross == [i \in 0..3 |-> [j \in 0..3 |-> crossRows[i + 1][j + 1]]]
start == <<0, 2, 1, 3>>

\* a symmetric matrix with positive off-diagonal costs
SymMatrix ==
  [i \in 0..(NumNodes - 1) |-> [j \in 0..(NumNodes - 1) |->
     IF i = j THEN 0 ELSE (((i + 1) * (j + 1) * 7 + (i + j) * 3) % 11) + 1]]

\* a matrix that is not symmetric (the interface does not enforce symmetry)
AsymMatrix ==
  [i \in 0..(NumNodes - 1) |-> [j \in 0..(NumNodes - 1) |->
     IF i = j THEN 0 ELSE ((i * 3 + j * 5) % 7) + 1]]

Matrices == {cross, SymMatrix, AsymMatrix}

\* the matrices of the provided data are symmetric
SymmetricMatrices == {cross, SymMatrix}

Symmetric(m) == \A i \in DOMAIN m : \A j \in DOMAIN m : m[i][j] = m[j][i]
NonNegative(m) == \A i \in DOMAIN m : \A j \in DOMAIN m : m[i][j] >= 0

\* TSP.dist
dist(i, j) == edges[i][j]

\* TSP.pathCost of a non-empty path: the closing edge, then the loop
RECURSIVE pathCostLoop(_, _, _)
pathCostLoop(path, i, cost) ==
  IF i >= Len(path) THEN cost
  ELSE pathCostLoop(path, i + 1, cost + dist(At(path, i - 1), At(path, i)))

\* mutation: the loop is not closed
pathCostOpen(path) == pathCostLoop(path, 1, 0)

pathCost(path) ==
  pathCostLoop(path, 1, dist(At(path, Len(path) - 1), At(path, 0)))

\* pathCost raises IndexError on path[-1] of an empty list
pathCostRaises(path) == Len(path) = 0

(***************************************************************************)
(* swap and the 2-opt engine.                                              *)
(***************************************************************************)
\* mutation: the slice end j is taken as exclusive
swapExclusive(path, i, j) ==
  PySlice(path, 0, i) \o reversed(PySlice(path, i, j))
                      \o PySlice(path, j, Len(path))

\* mutation: the suffix starts at j, so path[j] is kept twice
swapKeepsEnd(path, i, j) ==
  PySlice(path, 0, i) \o reversed(PySlice(path, i, j + 1))
                      \o PySlice(path, j, Len(path))

\* mutation: the reversed segment starts one position early
swapFromBefore(path, i, j) ==
  PySlice(path, 0, i - 1) \o reversed(PySlice(path, i - 1, j + 1))
                          \o PySlice(path, j + 1, Len(path))

\* the list bound to path when swap returns: slicing and reversed() copy
swapLeaves(path, i, j) == path

swap(path, i, j) ==
  PySlice(path, 0, i) \o reversed(PySlice(path, i, j + 1))
                      \o PySlice(path, j + 1, Len(path))

\* mutation: the removed arcs are added and the added arcs are removed
MoveChangeNegated(path, n, m) ==
  (dist(At(path, n), At(path, n + 1)) + dist(At(path, m), At(path, m + 1)))
    - (dist(At(path, n), At(path, m)) + dist(At(path, n + 1), At(path, m + 1)))

\* the change of one candidate move (n, m) of _improve
MoveChange(path, n, m) ==
  LET i == At(path, n)
      j == At(path, m)
      k == At(path, n + 1)
      l == At(path, m + 1)
  IN  (dist(i, j) + dist(k, l)) - (dist(i, k) + dist(j, l))

\* mutation: the scan goes on after the first improving move in fast mode too
improveNeverFast(path, sz, isFast) ==
  LET loops[at \in [n : Int, m : Int, bestChange : Int, saved : Seq(Int)]] ==
        IF at.n >= sz - 3
        THEN [saved |-> at.saved, bestChange |-> at.bestChange]
        ELSE IF at.m >= sz - 1
        THEN loops[[at EXCEPT !.n = at.n + 1, !.m = at.n + 3]]
        ELSE IF MoveChange(path, at.n, at.m) < at.bestChange
        THEN loops[[at EXCEPT !.m = at.m + 1,
                              !.bestChange = MoveChange(path, at.n, at.m),
                              !.saved = <<at.n, at.m>>]]
        ELSE loops[[at EXCEPT !.m = at.m + 1]]
  IN  loops[[n |-> 0, m |-> 2, bestChange |-> 0, saved |-> << >>]]

\* _improve: the two loops, from the candidate (n, m) on, with the values of
\* bestChange and saved so far; saved = << >> is None
improve(path, sz, isFast) ==
  LET loops[at \in [n : Int, m : Int, bestChange : Int, saved : Seq(Int)]] ==
        IF at.n >= sz - 3
        THEN [saved |-> at.saved, bestChange |-> at.bestChange]
        ELSE IF at.m >= sz - 1
        THEN loops[[at EXCEPT !.n = at.n + 1, !.m = at.n + 3]]
        ELSE IF MoveChange(path, at.n, at.m) < at.bestChange
        THEN IF isFast
             THEN [saved |-> <<at.n, at.m>>,
                   bestChange |-> MoveChange(path, at.n, at.m)]
             ELSE loops[[at EXCEPT !.m = at.m + 1,
                                   !.bestChange = MoveChange(path, at.n, at.m),
                                   !.saved = <<at.n, at.m>>]]
        ELSE loops[[at EXCEPT !.m = at.m + 1]]
  IN  loops[[n |-> 0, m |-> 2, bestChange |-> 0, saved |-> << >>]]

(***************************************************************************)
(* Inputs.                                                                 *)
(***************************************************************************)
NodesOf(m) == DOMAIN m

\* l = list(range(len(matrix)))
Identity(m) == [q \in 1..Cardinality(NodesOf(m)) |-> q - 1]

\* every list over a set of values, of length lo to hi
ListsOver(S, lo, hi) == UNION {[1..n -> S] : n \in lo..hi}

IsInjective(s) == \A p \in 1..Len(s) : \A q \in 1..Len(s) : s[p] = s[q] => p = q

\* every tour over a part of the nodes of m: no node twice, at least one node
AllTours(m) ==
  {t \in ListsOver(NodesOf(m), 1, Cardinality(NodesOf(m))) : IsInjective(t)}

\* the node orderings instances are built from when two instances share the
\* cache: the identity, the identity with a crossing (start, for 4 nodes) and
\* the identity backwards
InitialPaths(m) ==
  {Identity(m), swap(Identity(m), 1, 2), reversed(Identity(m))}

\* the master solutions handed to update: the slices l[0:], l[1:] and l[n:]
\* of the identity (the last one is empty)
Solutions(m) ==
  {{v \in NodesOf(m) : v >= k} : k \in {0, 1, Cardinality(NodesOf(m))}}

None == << >>

NoCall == [fn |-> "none", passed |-> << >>, args |-> << >>, ret |-> << >>,
           state |-> "none"]

\* the history of an engine run: the tour and cost it started from, whether
\* that tour was the output of the instance's previous run, whether a move
\* was applied, whether the run has produced the heuristic path, and whether
\* the call of another instance was running when it started
NoRun == [seed |-> << >>, cost |-> 0, fromEngine |-> FALSE, moved |-> FALSE,
          out |-> FALSE, overlap |-> FALSE]

(***************************************************************************)
(* Initial states: the module is loaded, setEdges has been called and the  *)
(* instances of I have been constructed (TSP.__init__).                    *)
(***************************************************************************)
Constructed(I, paths) ==
  /\ initial_path \in [I -> paths]
  /\ fast \in [I -> BOOLEAN]
  /\ heuristic_path = initial_path
  /\ heuristic_cost = [x \in I |-> pathCost(initial_path[x])]
  /\ routes = << >>
  /\ pc = [x \in I |-> "idle"]
  /\ bestPath = [x \in I |-> << >>]
  /\ size = [x \in I |-> 0]
  /\ run = [x \in I |-> NoRun]
  /\ engineRuns = {}
  /\ lastCall = [op |-> "__init__", inst |-> "",
                 outcome |-> "ok", ret |-> None]

\* two instances over the same matrix
Init ==
  /\ edges \in SymmetricMatrices
  /\ call = NoCall
  /\ Constructed({"t1", "t2"}, InitialPaths(edges))

\* one instance, seeded with any tour
InitEngine ==
  /\ edges \in Matrices
  /\ call = NoCall
  /\ Constructed({"t"}, AllTours(edges))

(***************************************************************************)
(* The operations.                                                         *)
(***************************************************************************)
Idle == \A y \in Instances : pc[y] = "idle"

\* mutation: the cache is not written
saveEffectNoCache(x, path, cost) ==
  /\ heuristic_path' = [heuristic_path EXCEPT ![x] = path]
  /\ heuristic_cost' = [heuristic_cost EXCEPT ![x] = cost]
  /\ routes' = routes

\* mutation: an entry with a lower cost is kept
saveEffectKeepLower(x, path, cost) ==
  /\ heuristic_path' = [heuristic_path EXCEPT ![x] = path]
  /\ heuristic_cost' = [heuristic_cost EXCEPT ![x] = cost]
  /\ routes' = IF /\ RouteKey(path) \in DOMAIN routes
                  /\ routes[RouteKey(path)].cost <= cost
               THEN routes
               ELSE (RouteKey(path) :> [path |-> path, cost |-> cost])
                      @@ routes

\* the three assignments of TSP.save
saveEffect(x, path, cost) ==
  /\ heuristic_path' = [heuristic_path EXCEPT ![x] = path]
  /\ heuristic_cost' = [heuristic_cost EXCEPT ![x] = cost]
  /\ routes' = (RouteKey(path) :> [path |-> path, cost |-> cost]) @@ routes

\* TSP.save called by the user of the instance
save(x, path, cost) ==
  /\ pc[x] = "idle"
  /\ saveEffect(x, path, cost)
  /\ lastCall' = [op |-> "save", inst |-> x,
                  outcome |-> "ok", ret |-> None]
  /\ run' = [run EXCEPT ![x] = NoRun]
  /\ UNCHANGED <<edges, initial_path, fast, pc, bestPath, size, call>>

\* mutation: [i for i in sorted(solution) if i in self.initial_path]
restrictSorted(path, solution) ==
  sorted(SelectSeq(path, LAMBDA v : v \in solution))

\* [i for i in self.initial_path if i in solution]
restrict(path, solution) == SelectSeq(path, LAMBDA v : v \in solution)

\* TSP.update: the path is assigned before pathCost may raise
update(x, solution) ==
  /\ pc[x] = "idle"
  /\ LET path == restrict(initial_path[x], solution)
     IN  /\ heuristic_path' = [heuristic_path EXCEPT ![x] = path]
         /\ IF pathCostRaises(path)
            THEN /\ UNCHANGED heuristic_cost
                 /\ lastCall' = [op |-> "update", inst |-> x,
                                 outcome |-> "raise",
                                 ret |-> None]
            ELSE /\ heuristic_cost' =
                      [heuristic_cost EXCEPT ![x] = pathCost(path)]
                 /\ lastCall' = [op |-> "update", inst |-> x,
                                 outcome |-> "ok",
                                 ret |-> None]
  /\ run' = [run EXCEPT ![x] = NoRun]
  /\ UNCHANGED <<edges, routes, initial_path, fast, pc, bestPath, size, call>>

\* mutation: the search starts from the initial path
enterEngineFromInitial(x, from) ==
  /\ pc' = [pc EXCEPT ![x] = from]
  /\ bestPath' = [bestPath EXCEPT ![x] = initial_path[x]]
  /\ size' = [size EXCEPT ![x] = Len(initial_path[x])]
  /\ run' = [run EXCEPT ![x] = [seed |-> heuristic_path[x],
                                cost |-> heuristic_cost[x],
                                fromEngine |-> run[x].out,
                                moved |-> FALSE, out |-> FALSE,
                                overlap |-> \E y \in Instances \ {x} :
                                              pc[y] # "idle"]]
  /\ lastCall' = [op |-> from, inst |-> x,
                  outcome |-> "running", ret |-> None]

\* the first three statements of TwoOpt._optimise, entered from `from`
enterEngine(x, from) ==
  /\ pc' = [pc EXCEPT ![x] = from]
  /\ bestPath' = [bestPath EXCEPT ![x] = heuristic_path[x]]
  /\ size' = [size EXCEPT ![x] = Len(heuristic_path[x])]
  /\ run' = [run EXCEPT ![x] = [seed |-> heuristic_path[x],
                                cost |-> heuristic_cost[x],
                                fromEngine |-> run[x].out,
                                moved |-> FALSE, out |-> FALSE,
                                overlap |-> \E y \in Instances \ {x} :
                                              pc[y] # "idle"]]
  /\ lastCall' = [op |-> from, inst |-> x,
                  outcome |-> "running", ret |-> None]

\* mutation: the cost of the saved path is computed again
adoptSavedRecompute(x, saved) ==
  /\ heuristic_path' = [heuristic_path EXCEPT ![x] = saved.path]
  /\ heuristic_cost' = [heuristic_cost EXCEPT ![x] = pathCost(saved.path)]

\* the hit branch of TSP.optimise
adoptSaved(x, saved) ==
  /\ heuristic_path' = [heuristic_path EXCEPT ![x] = saved.path]
  /\ heuristic_cost' = [heuristic_cost EXCEPT ![x] = saved.cost]

\* mutation: the cache is not looked up
optimiseNoLookup(x) ==
  /\ pc[x] = "idle"
  /\ enterEngine(x, "optimise")
  /\ UNCHANGED <<edges, routes, initial_path, fast, heuristic_path,
                 heuristic_cost, call>>

\* TSP.optimise up to the cache lookup: a hit returns, a miss enters _optimise
optimise(x) ==
  /\ pc[x] = "idle"
  /\ LET route == RouteKey(heuristic_path[x])
     IN  IF route \in DOMAIN routes
         THEN /\ adoptSaved(x, routes[route])
              /\ lastCall' = [op |-> "optimise", inst |-> x,
                              outcome |-> "hit",
                              ret |-> <<heuristic_path'[x],
                                        heuristic_cost'[x]>>]
              /\ run' = [run EXCEPT ![x] = NoRun]
              /\ UNCHANGED <<pc, bestPath, size>>
         ELSE /\ enterEngine(x, "optimise")
              /\ UNCHANGED <<heuristic_path, heuristic_cost>>
  /\ UNCHANGED <<edges, routes, initial_path, fast, call>>

\* TwoOpt._optimise called directly, as its doctests do
twoOptOptimise(x) ==
  /\ pc[x] = "idle"
  /\ enterEngine(x, "_optimise")
  /\ UNCHANGED <<edges, routes, initial_path, fast, heuristic_path,
                 heuristic_cost, call>>

\* one iteration of the while loop whose scan finds an improving move
ApplyMove(x) ==
  /\ pc[x] \in {"optimise", "_optimise"}
  /\ LET r == improve(bestPath[x], size[x], fast[x])
     IN  /\ r.bestChange < 0
         /\ bestPath' = [bestPath EXCEPT
                           ![x] = swap(bestPath[x], r.saved[1] + 1, r.saved[2])]
  /\ run' = [run EXCEPT ![x].moved = TRUE]
  /\ UNCHANGED <<edges, routes, initial_path, fast, heuristic_path,
                 heuristic_cost, pc, size, lastCall, call>>

\* the last iteration (the scan finds nothing), the save and the return
Terminate(x) ==
  /\ pc[x] \in {"optimise", "_optimise"}
  /\ improve(bestPath[x], size[x], fast[x]).bestChange >= 0
  /\ pc' = [pc EXCEPT ![x] = "idle"]
  /\ bestPath' = [bestPath EXCEPT ![x] = << >>]
  /\ size' = [size EXCEPT ![x] = 0]
  /\ IF pathCostRaises(bestPath[x])
     THEN /\ lastCall' = [lastCall EXCEPT !.outcome = "raise"]
          /\ UNCHANGED <<routes, heuristic_path, heuristic_cost, run>>
     ELSE /\ saveEffect(x, bestPath[x], pathCost(bestPath[x]))
          /\ lastCall' = [lastCall EXCEPT
                            !.outcome = "done",
                            !.ret = IF pc[x] = "optimise"
                                    THEN <<heuristic_path'[x],
                                           heuristic_cost'[x]>>
                                    ELSE None]
          /\ run' = [run EXCEPT ![x].out = TRUE]
  /\ UNCHANGED <<edges, initial_path, fast, call>>

(***************************************************************************)
(* Specifications.  Calls run one after the other (the program is          *)
(* single-threaded): a call starts when no call is running.                *)
(***************************************************************************)
Step(x) == (ApplyMove(x) \/ Terminate(x)) /\ UNCHANGED engineRuns

\* the history of engine runs is kept where a claim is about it
Unobserved == UNCHANGED engineRuns

\* history: the keys of the engine runs this step starts from optimise()
Observed ==
  engineRuns' = engineRuns \cup
    {RouteKey(heuristic_path[x]) :
       x \in {y \in Instances : pc[y] = "idle" /\ pc'[y] = "optimise"}}

Next ==
  \/ \E x \in Instances : Idle /\ optimise(x) /\ Unobserved
  \/ \E x \in Instances : \E s \in Solutions(edges) :
       Idle /\ update(x, s) /\ Unobserved
  \/ \E x \in Instances :
       Idle /\ save(x, Identity(edges), SaveCost) /\ Unobserved
  \/ \E x \in Instances : ApplyMove(x) /\ Unobserved
  \/ \E x \in Instances : Terminate(x) /\ Unobserved

Spec == Init /\ [][Next]_vars

NextEngine ==
  \/ \E x \in Instances : Idle /\ twoOptOptimise(x) /\ Unobserved
  \/ \E x \in Instances : ApplyMove(x) /\ Unobserved
  \/ \E x \in Instances : Terminate(x) /\ Unobserved

SpecEngine == InitEngine /\ [][NextEngine]_vars

\* a running call keeps running: the loop has no suspension point
FairSpecEngine == SpecEngine /\ WF_vars(\E x \in Instances : Step(x))

\* two instances, any of the matrices, and no direct save by the caller
InitCalls ==
  /\ edges \in Matrices
  /\ call = NoCall
  /\ Constructed({"t1", "t2"}, InitialPaths(edges))

NextCalls ==
  \/ \E x \in Instances : Idle /\ optimise(x) /\ Observed
  \/ \E x \in Instances : \E s \in Solutions(edges) :
       Idle /\ update(x, s) /\ Observed
  \/ \E x \in Instances : ApplyMove(x) /\ Observed
  \/ \E x \in Instances : Terminate(x) /\ Observed

SpecCalls == InitCalls /\ [][NextCalls]_vars

\* optimise() calls of the two instances that run interleaved, with no mutual
\* exclusion: a call may start while the call of the other instance is
\* between its cache lookup and its store (lastCall then follows the call
\* that started last)
NextConcurrent ==
  \/ \E x \in Instances : optimise(x) /\ Observed
  \/ \E x \in Instances : ApplyMove(x) /\ Observed
  \/ \E x \in Instances : Terminate(x) /\ Observed

SpecConcurrent == InitCalls /\ [][NextConcurrent]_vars

(***************************************************************************)
(* pathCost and swap on their own: the call is made in the initial state   *)
(* and the one step runs it.  No instance exists.                          *)
(***************************************************************************)
NoInstances ==
  /\ routes = << >>
  /\ initial_path = << >>
  /\ fast = << >>
  /\ heuristic_path = << >>
  /\ heuristic_cost = << >>
  /\ pc = << >>
  /\ bestPath = << >>
  /\ size = << >>
  /\ run = << >>
  /\ engineRuns = {}
  /\ lastCall = [op |-> "setEdges", inst |-> "", outcome |-> "ok",
                 ret |-> None]

Called(fn, args) ==
  [fn |-> fn, passed |-> args, args |-> args, ret |-> None,
   state |-> "called"]

InitPathCost ==
  /\ edges \in Matrices
  /\ NoInstances
  /\ \E t \in ListsOver(NodesOf(edges), 0, MaxLen) :
       call = Called("pathCost", <<t>>)

callPathCost ==
  /\ call.fn = "pathCost" /\ call.state = "called"
  /\ IF pathCostRaises(call.args[1])
     THEN call' = [call EXCEPT !.state = "raised"]
     ELSE call' = [call EXCEPT !.state = "returned",
                               !.ret = <<pathCost(call.args[1])>>]
  /\ UNCHANGED <<edges, routes, initial_path, fast, heuristic_path,
                 heuristic_cost, pc, bestPath, size, run, lastCall,
                 engineRuns>>

SpecPathCost == InitPathCost /\ [][callPathCost]_vars

\* the lists handed to swap: without and with repeated elements
SwapLists ==
  {t \in ListsOver(0..(MaxLen - 1), 0, MaxLen) : IsInjective(t)}
    \cup ListsOver({0, 1}, 0, MaxLen)

InitSwap ==
  /\ edges = cross
  /\ NoInstances
  /\ \E t \in SwapLists : \E i \in (-1)..MaxLen : \E j \in (-1)..MaxLen :
       call = Called("swap", <<t, i, j>>)

callSwap ==
  /\ call.fn = "swap" /\ call.state = "called"
  /\ LET path == call.args[1]
         i == call.args[2]
         j == call.args[3]
     IN  call' = [call EXCEPT !.state = "returned",
                              !.ret = <<swap(path, i, j)>>,
                              !.args = <<swapLeaves(path, i, j), i, j>>]
  /\ UNCHANGED <<edges, routes, initial_path, fast, heuristic_path,
                 heuristic_cost, pc, bestPath, size, run, lastCall,
                 engineRuns>>

SpecSwap == InitSwap /\ [][callSwap]_vars

(***************************************************************************)
(* Properties.                                                             *)
(***************************************************************************)
\* the cost of the cycle through t, edge by edge from the last one down
RECURSIVE EdgeSum(_, _)
EdgeSum(t, p) ==
  IF p <= 0 THEN 0
  ELSE EdgeSum(t, p - 1) + edges[At(t, p - 1)][At(t, p)]

CycleCost(t) == EdgeSum(t, Len(t) - 1) + edges[At(t, Len(t) - 1)][At(t, 0)]

\* C1: pathCost of a non-empty tour returns the sum of dist over the
\* consecutive pairs plus the closing edge from the last node to the first;
\* for one node that is dist(x, x); [0,1,2,3] over cross costs 8, not 6.
C1_PathCostClosesCycle ==
  (call.fn = "pathCost" /\ call.state # "called" /\ Len(call.passed[1]) > 0)
    => LET t == call.passed[1]
       IN  /\ call.state = "returned"
           /\ call.ret = <<CycleCost(t)>>
           /\ Len(t) = 1 => call.ret = <<edges[t[1]][t[1]]>>
           /\ (edges = cross /\ t = <<0, 1, 2, 3>>) => call.ret = <<8>>

C1_Witness ==
  /\ call.fn = "pathCost" /\ call.state = "returned"
  /\ edges = cross /\ call.passed[1] = <<0, 1, 2, 3>> /\ call.ret = <<8>>

\* C2: for 0 <= i <= j < len(t), swap(t, i, j) returns a list of the same
\* length that holds t[i + j - p] at the positions p of [i, j] and t[p] at
\* every other position, and t is not modified.
C2_SwapReversesSegment ==
  (call.fn = "swap" /\ call.state = "returned")
    => LET t == call.passed[1]
           i == call.passed[2]
           j == call.passed[3]
           r == call.ret[1]
       IN  (0 <= i /\ i <= j /\ j < Len(t))
             => /\ Len(r) = Len(t)
                /\ \A p \in 0..(Len(t) - 1) :
                     At(r, p) = IF i <= p /\ p <= j THEN At(t, i + j - p)
                                ELSE At(t, p)
                /\ call.args[1] = t

C2_Witness ==
  /\ call.fn = "swap" /\ call.state = "returned"
  /\ call.passed = <<<<0, 1, 2, 3>>, 1, 3>>
  /\ call.ret = << <<0, 3, 2, 1>> >>

\* the number of times v occurs in the list s
Count(s, v) == Cardinality({p \in 1..Len(s) : s[p] = v})

\* two lists hold the same nodes, each as often
SameNodes(s, t) == \A v \in NodesOf(edges) : Count(s, v) = Count(t, v)

\* C3: optimise() with an entry in the cache under the sorted key of the
\* heuristic tour sets heuristic_path and heuristic_cost to the cached path
\* and the cached cost (not a recomputed one), returns that pair, does not
\* enter the engine and leaves the cache as it is.
C3_CacheHitAdopts ==
  [][\A x \in Instances :
       ( /\ lastCall'.op = "optimise" /\ lastCall'.inst = x
         /\ RouteKey(heuristic_path[x]) \in DOMAIN routes
         /\ optimise(x) )
         => LET saved == routes[RouteKey(heuristic_path[x])]
            IN  /\ heuristic_path'[x] = saved.path
                /\ heuristic_cost'[x] = saved.cost
                /\ lastCall'.outcome = "hit"
                /\ lastCall'.ret = <<saved.path, saved.cost>>
                /\ pc'[x] = "idle"
                /\ bestPath' = bestPath
                /\ run'[x] = NoRun
                /\ routes' = routes]_vars

C3_Witness ==
  /\ lastCall.op = "optimise" /\ lastCall.outcome = "hit"
  /\ LET x == lastCall.inst
     IN  /\ heuristic_cost[x] = SaveCost
         /\ heuristic_cost[x] # pathCost(heuristic_path[x])
         /\ routes[RouteKey(heuristic_path[x])].cost = SaveCost

\* C4: when optimise() has completed on one instance and the next call is
\* optimise() on an instance built from another ordering whose heuristic
\* tour holds the same nodes, that call is a cache hit, does not enter the
\* engine and returns the pair the first call returned.
C4_KeyIsOrderIndependent ==
  [][\A a \in Instances : \A b \in Instances \ {a} :
       ( /\ lastCall.op = "optimise" /\ lastCall.inst = a
         /\ lastCall.outcome \in {"hit", "done"}
         /\ lastCall'.op = "optimise" /\ lastCall'.inst = b
         /\ initial_path[a] # initial_path[b]
         /\ SameNodes(heuristic_path[b], lastCall.ret[1])
         /\ optimise(b) )
         => /\ lastCall'.outcome = "hit"
            /\ lastCall'.ret = lastCall.ret
            /\ pc'[b] = "idle"
            /\ run'[b] = NoRun
            /\ routes' = routes]_vars

C4_Witness ==
  /\ lastCall.op = "optimise" /\ lastCall.outcome = "hit"
  /\ \E a \in Instances : \E b \in Instances \ {a} :
       /\ lastCall.inst = b
       /\ run[a].out /\ run[a].moved
       /\ initial_path[a] # initial_path[b]
       /\ Len(heuristic_path[a]) = Cardinality(NodesOf(edges))
       /\ lastCall.ret = <<heuristic_path[a], heuristic_cost[a]>>
       /\ heuristic_path[b] = heuristic_path[a]

\* one candidate move of a tour t of S nodes: positions n and m
CandidateMoves(S) == {c \in (0..(S - 4)) \X (0..(S - 2)) : c[2] >= c[1] + 2}

\* the delta of the candidate move (n, m) of the tour t
Delta(t, n, m) ==
  edges[t[n + 1]][t[m + 1]] + edges[t[n + 2]][t[m + 2]]
    - edges[t[n + 1]][t[n + 2]] - edges[t[m + 1]][t[m + 2]]

\* t with the positions a to b (0-based, inclusive) in reverse order
Reversal(t, a, b) ==
  [q \in 1..Len(t) |-> IF a + 1 <= q /\ q <= b + 1 THEN t[a + b + 2 - q]
                       ELSE t[q]]

NoImprovingCandidate(t) ==
  \A c \in CandidateMoves(Len(t)) : Delta(t, c[1], c[2]) >= 0

\* C5: when optimise() returns after a cache miss, the pair it returns is
\* the instance's (heuristic_path, heuristic_cost) and the cache entry under
\* the sorted key of the returned tour, the cost is the cost of the cycle
\* through the returned tour, and the engine has converged on that tour.
C5_MissRunsEngineAndSaves ==
  (lastCall.op = "optimise" /\ lastCall.outcome = "done")
    => LET x == lastCall.inst
           path == lastCall.ret[1]
           cost == lastCall.ret[2]
       IN  /\ heuristic_path[x] = path /\ heuristic_cost[x] = cost
           /\ RouteKey(path) \in DOMAIN routes
           /\ routes[RouteKey(path)] = [path |-> path, cost |-> cost]
           /\ cost = CycleCost(path)
           /\ SameNodes(path, run[x].seed)
           /\ NoImprovingCandidate(path)

C5_Witness ==
  /\ lastCall.op = "optimise" /\ lastCall.outcome = "done"
  /\ run[lastCall.inst].moved
  /\ lastCall.ret[1] # sorted(lastCall.ret[1])
  /\ Cardinality(DOMAIN routes) = 2

\* the sublist of path made of its elements that are in solution
IsRestriction(r, path, solution) ==
  LET keep == {p \in 1..Len(path) : path[p] \in solution}
  IN  /\ Len(r) = Cardinality(keep)
      /\ \A p \in keep : r[Cardinality({q \in keep : q <= p})] = path[p]

\* C6: update(nodeSubset) sets heuristic_path to the initial path restricted
\* to the members of nodeSubset in their original order and heuristic_cost
\* to the cost of that tour (when it is not empty), does not enter the
\* engine and does not write the cache; no step changes initial_path.
C6_UpdateProjectsInitialPath ==
  [][/\ initial_path' = initial_path
     /\ \A x \in Instances : \A s \in Solutions(edges) :
          (lastCall'.op = "update" /\ lastCall'.inst = x /\ update(x, s))
            => /\ IsRestriction(heuristic_path'[x], initial_path[x], s)
               /\ heuristic_path'[x] # << >>
                    => heuristic_cost'[x] = CycleCost(heuristic_path'[x])
               /\ pc'[x] = "idle"
               /\ bestPath' = bestPath
               /\ routes' = routes]_vars

C6_Witness ==
  /\ lastCall.op = "update" /\ lastCall.outcome = "ok"
  /\ LET x == lastCall.inst
     IN  /\ Len(heuristic_path[x]) = Len(initial_path[x]) - 1
         /\ Len(heuristic_path[x]) >= 4
         /\ heuristic_path[x] # sorted(heuristic_path[x])
         /\ heuristic_cost[x] # SaveCost
         /\ RouteKey(initial_path[x]) \in DOMAIN routes
         /\ RouteKey(heuristic_path[x]) \in DOMAIN routes

Searching(x) == pc[x] \in {"optimise", "_optimise"}

\* C7: over a symmetric matrix, every step of the engine that changes the
\* working tour applies the move (n, m) its scan returned, whose delta is
\* negative; the new tour is the old one with the positions n+1 to m
\* reversed and its cost is the old cost plus delta, so strictly lower.
C7_AcceptedMovesImprove ==
  [][\A x \in Instances :
       ( /\ Symmetric(edges)
         /\ Searching(x) /\ pc'[x] = pc[x]
         /\ bestPath'[x] # bestPath[x] )
         => LET mv == improve(bestPath[x], size[x], fast[x])
                n == mv.saved[1]
                m == mv.saved[2]
            IN  /\ mv.saved \in CandidateMoves(Len(bestPath[x]))
                /\ mv.bestChange < 0
                /\ mv.bestChange = Delta(bestPath[x], n, m)
                /\ bestPath'[x] = Reversal(bestPath[x], n + 1, m)
                /\ CycleCost(bestPath'[x])
                     = CycleCost(bestPath[x]) + mv.bestChange
                /\ CycleCost(bestPath'[x]) < CycleCost(bestPath[x])]_vars

C7_Witness ==
  \E x \in Instances :
    /\ Symmetric(edges) /\ Searching(x) /\ run[x].moved
    /\ fast[x]
    /\ CycleCost(bestPath[x]) < CycleCost(run[x].seed)
    /\ ~NoImprovingCandidate(bestPath[x])

AnySearching == \E x \in Instances : Searching(x)

\* C8: over a symmetric matrix with non-negative costs a running engine
\* eventually terminates: a scan returns bestChange = 0 and the call ends.
C8_EngineTerminates ==
  (AnySearching /\ Symmetric(edges) /\ NonNegative(edges)) ~> Idle

C8_Witness ==
  \E x \in Instances :
    /\ Symmetric(edges) /\ NonNegative(edges)
    /\ pc[x] = "idle" /\ run[x].out /\ run[x].moved
    /\ Len(heuristic_path[x]) >= 5

\* the pairs of positions (p, q) of the non-adjacent edges (t[p], t[p+1])
\* and (t[q], t[q+1]) of the cycle through S nodes; position S is position 0
NonAdjacentEdges(S) ==
  {c \in (0..(S - 3)) \X (0..(S - 1)) :
     c[2] >= c[1] + 2 /\ ~(c[1] = 0 /\ c[2] = S - 1)}

\* no 2-opt move of the cycle through t gives a cheaper tour
CycleLocalOptimum(t) ==
  \A c \in NonAdjacentEdges(Len(t)) :
    CycleCost(Reversal(t, c[1] + 1, c[2])) >= CycleCost(t)

\* C9: the tour the engine outputs over a symmetric matrix is a local
\* optimum under the 2-opt moves of the cycle, the closing edge included.
C9_OutputIsLocalOptimum ==
  \A x \in Instances :
    (Symmetric(edges) /\ pc[x] = "idle" /\ run[x].out)
      => CycleLocalOptimum(heuristic_path[x])

\* C10: an engine run seeded with the output of the instance's previous run,
\* or with a tour of fewer than 4 nodes, applies no move and ends with the
\* tour and the cost it started from.
C10_EngineIsIdempotent ==
  \A x \in Instances :
    ( /\ pc[x] = "idle" /\ run[x].out
      /\ (run[x].fromEngine \/ Len(run[x].seed) < 4) )
      => /\ ~run[x].moved
         /\ heuristic_path[x] = run[x].seed
         /\ heuristic_cost[x] = run[x].cost
         /\ heuristic_cost[x] = CycleCost(run[x].seed)

C10_Witness ==
  \E x \in Instances :
    /\ pc[x] = "idle" /\ run[x].out /\ run[x].fromEngine
    /\ Len(run[x].seed) >= 5
    /\ run[x].seed # initial_path[x]
    /\ heuristic_path[x] = run[x].seed

\* C11: over a symmetric matrix the cost an engine run ends with is never
\* greater than pathCost of the tour it was seeded with, and is strictly
\* lower when the seed has a candidate move with negative delta; seeded with
\* [0,2,1,3] over cross (cost 10) the run ends with cost 8.
C11_EngineNeverWorsens ==
  \A x \in Instances :
    (Symmetric(edges) /\ pc[x] = "idle" /\ run[x].out)
      => /\ heuristic_cost[x] <= CycleCost(run[x].seed)
         /\ ~NoImprovingCandidate(run[x].seed)
              => heuristic_cost[x] < CycleCost(run[x].seed)
         /\ (edges = cross /\ run[x].seed = start)
              => (CycleCost(run[x].seed) = 10 /\ heuristic_cost[x] = 8)

C11_Witness ==
  \E x \in Instances :
    /\ edges = cross /\ pc[x] = "idle" /\ run[x].out
    /\ run[x].seed = start /\ run[x].cost = 10
    /\ heuristic_cost[x] = 8

\* C12: save(tour, cost) sets the instance's heuristic_path and
\* heuristic_cost to its arguments and makes (tour, cost) the cache entry
\* under the sorted key of the tour, whatever entry was stored there before
\* (one with a lower cost included); the entries under other keys, the other
\* instances and the engine are left as they are.
C12_SaveWritesThrough ==
  [][\A x \in Instances :
       ( /\ lastCall'.op = "save" /\ lastCall'.inst = x
         /\ save(x, Identity(edges), SaveCost) )
         => LET path == Identity(edges)
                key == str(sorted(path))
            IN  /\ heuristic_path'[x] = path
                /\ heuristic_cost'[x] = SaveCost
                /\ DOMAIN routes' = DOMAIN routes \cup {key}
                /\ routes'[key] = [path |-> path, cost |-> SaveCost]
                /\ \A k \in DOMAIN routes \ {key} : routes'[k] = routes[k]
                /\ \A y \in Instances \ {x} :
                     /\ heuristic_path'[y] = heuristic_path[y]
                     /\ heuristic_cost'[y] = heuristic_cost[y]
                /\ pc' = pc /\ bestPath' = bestPath]_vars

\* a save has replaced the entry another instance's engine run had stored
\* under the same key with a lower cost, and a second key is in the cache
C12_Witness ==
  /\ lastCall.op = "save"
  /\ LET x == lastCall.inst
         key == str(sorted(heuristic_path[x]))
     IN  /\ routes[key] = [path |-> heuristic_path[x], cost |-> SaveCost]
         /\ \E y \in Instances \ {x} :
              /\ run[y].out
              /\ str(sorted(heuristic_path[y])) = key
              /\ heuristic_path[y] # heuristic_path[x]
              /\ heuristic_cost[y] < SaveCost
         /\ Cardinality(DOMAIN routes) >= 2

\* C13: a call that reaches pathCost of an empty tour (update with a subset
\* that holds no node of the initial path, or an engine run on an empty
\* tour) fails with an error, and the instances' heuristic_path and
\* heuristic_cost and the route cache are what they were before the call.
C13_FailFastNoMutation ==
  [][\A x \in Instances :
       /\ \A s \in Solutions(edges) :
            ( /\ lastCall'.op = "update" /\ lastCall'.inst = x
              /\ \A p \in 1..Len(initial_path[x]) : initial_path[x][p] \notin s
              /\ update(x, s) )
              => /\ lastCall'.outcome = "raise"
                 /\ heuristic_path' = heuristic_path
                 /\ heuristic_cost' = heuristic_cost
                 /\ routes' = routes
       /\ ( /\ Searching(x) /\ pc'[x] = "idle" /\ bestPath[x] = << >> )
              => /\ lastCall'.outcome = "raise"
                 /\ heuristic_path' = heuristic_path
                 /\ heuristic_cost' = heuristic_cost
                 /\ routes' = routes]_vars

\* C14: swap called with i > j or with an index outside 0..len(tour)-1 fails
\* with an error; it does not return a sequence.
C14_SwapRejectsInvalidRange ==
  (call.fn = "swap" /\ call.state # "called")
    => LET t == call.passed[1]
           i == call.passed[2]
           j == call.passed[3]
       IN  ~(0 <= i /\ i <= j /\ j < Len(t)) => call.state = "raised"

\* the candidate c comes before the candidate d in the order of the scan
ScanBefore(c, d) == c[1] < d[1] \/ (c[1] = d[1] /\ c[2] < d[2])

\* the candidates of the tour t whose delta is negative
Improving(t) ==
  {c \in CandidateMoves(Len(t)) : Delta(t, c[1], c[2]) < 0}

\* C15: one scan over the candidates (n, m), 0 <= n <= S-4 and
\* n+2 <= m <= S-2, n ascending and m ascending within n, returns in fast
\* mode the first candidate whose delta is negative and in exhaustive mode a
\* candidate of minimum delta, the earliest of them in scan order; in both
\* modes it returns (None, 0) exactly when no candidate has a negative delta.
C15_ScanModePolicy ==
  \A x \in Instances :
    Searching(x)
      => LET t == bestPath[x]
             r == improve(t, size[x], fast[x])
         IN  /\ (Improving(t) = {}) <=> (r.saved = None /\ r.bestChange = 0)
             /\ Improving(t) # {}
                  => /\ r.saved \in Improving(t)
                     /\ r.bestChange = Delta(t, r.saved[1], r.saved[2])
                     /\ fast[x]
                          => \A c \in Improving(t) \ {r.saved} :
                               ScanBefore(r.saved, c)
                     /\ ~fast[x]
                          => \A c \in CandidateMoves(Len(t)) \ {r.saved} :
                               \/ Delta(t, c[1], c[2]) > r.bestChange
                               \/ /\ Delta(t, c[1], c[2]) = r.bestChange
                                  /\ ScanBefore(r.saved, c)

\* an exhaustive scan returns a candidate that is not the first improving
\* one and that ties with a later candidate
C15_Witness ==
  \E x \in Instances :
    /\ Searching(x) /\ ~fast[x]
    /\ LET t == bestPath[x]
           r == improve(t, size[x], fast[x])
       IN  /\ r.bestChange < 0
           /\ \E c \in Improving(t) : ScanBefore(c, r.saved)
           /\ \E c \in Improving(t) \ {r.saved} :
                Delta(t, c[1], c[2]) = r.bestChange

\* t holds the nodes of s, each once: a permutation of a tour without
\* duplicates
PermutationOf(t, s) ==
  /\ Len(t) = Len(s)
  /\ {t[p] : p \in 1..Len(t)} = {s[p] : p \in 1..Len(s)}
  /\ IsInjective(t)

\* C16: when the heuristic tour an optimise() call starts from has no
\* duplicate node, the working tour of the engine after every step, the tour
\* the engine saves and the tour optimise() returns, on a hit and on a miss,
\* are permutations of that tour.
C16_ToursArePermutations ==
  [][\A x \in Instances :
       /\ ( /\ lastCall'.op = "optimise" /\ lastCall'.inst = x
            /\ IsInjective(heuristic_path[x])
            /\ optimise(x) )
            => IF lastCall'.outcome = "hit"
               THEN /\ PermutationOf(lastCall'.ret[1], heuristic_path[x])
                    /\ heuristic_path'[x] = lastCall'.ret[1]
               ELSE /\ run'[x].seed = heuristic_path[x]
                    /\ PermutationOf(bestPath'[x], heuristic_path[x])
       /\ (Searching(x) /\ IsInjective(run[x].seed))
            => IF pc'[x] = pc[x]
               THEN PermutationOf(bestPath'[x], run[x].seed)
               ELSE lastCall'.outcome = "done"
                      => /\ PermutationOf(heuristic_path'[x], run[x].seed)
                         /\ lastCall'.ret[1] = heuristic_path'[x]
                         /\ routes'[RouteKey(run[x].seed)].path
                              = heuristic_path'[x]]_vars

\* a miss that moved nodes and a later hit of the other instance, which
\* started from another ordering, both end with a permutation
C16_Witness ==
  /\ lastCall.op = "optimise" /\ lastCall.outcome = "hit"
  /\ \E a \in Instances : \E b \in Instances \ {a} :
       /\ lastCall.inst = b
       /\ run[a].out /\ run[a].moved
       /\ Len(run[a].seed) >= 4
       /\ heuristic_path[a] # run[a].seed
       /\ PermutationOf(heuristic_path[a], run[a].seed)
       /\ initial_path[b] # initial_path[a]
       /\ heuristic_path[b] = heuristic_path[a]
       /\ PermutationOf(heuristic_path[b], initial_path[b])

\* C17: every move the engine applies reverses the positions n+1 to m of
\* the working tour with 1 <= n+1 and m <= S-2, so the nodes at the
\* positions 0 and S-1 stay; the tour the run ends with starts and ends with
\* the nodes its seed starts and ends with.
C17_EndPositionsFrozen ==
  [][\A x \in Instances :
       Searching(x)
         => IF pc'[x] = pc[x] /\ bestPath'[x] # bestPath[x]
            THEN LET mv == improve(bestPath[x], size[x], fast[x])
                     S == Len(bestPath[x])
                 IN  /\ 1 <= mv.saved[1] + 1 /\ mv.saved[2] <= S - 2
                     /\ bestPath'[x]
                          = Reversal(bestPath[x], mv.saved[1] + 1, mv.saved[2])
                     /\ At(bestPath'[x], 0) = At(bestPath[x], 0)
                     /\ At(bestPath'[x], S - 1) = At(bestPath[x], S - 1)
                     /\ At(bestPath'[x], 0) = At(run[x].seed, 0)
                     /\ At(bestPath'[x], S - 1) = At(run[x].seed, S - 1)
            ELSE (pc'[x] = "idle" /\ run'[x].out)
                   => /\ Len(heuristic_path'[x]) = Len(run[x].seed)
                      /\ At(heuristic_path'[x], 0) = At(run[x].seed, 0)
                      /\ At(heuristic_path'[x], Len(run[x].seed) - 1)
                           = At(run[x].seed, Len(run[x].seed) - 1)]_vars

\* a run that applied the move (0, S-2), the widest one, has ended
C17_Witness ==
  \E x \in Instances :
    /\ pc[x] = "idle" /\ run[x].out /\ run[x].moved
    /\ Len(run[x].seed) >= 5
    /\ heuristic_path[x]
         = Reversal(run[x].seed, 1, Len(run[x].seed) - 2)
    /\ At(heuristic_path[x], 0) = At(run[x].seed, 0)

\* C18: when the callers only call optimise() and update(), every entry of
\* the route cache is stored under the sorted node list of its own path, its
\* cost is the cost of the cycle through its path, and its path has no
\* candidate move with a negative delta.
C18_CacheIsConsistent ==
  \A k \in DOMAIN routes :
    /\ k = str(sorted(routes[k].path))
    /\ routes[k].cost = CycleCost(routes[k].path)
    /\ NoImprovingCandidate(routes[k].path)

\* two entries, one of them a tour of all nodes that the engine reordered
C18_Witness ==
  /\ Cardinality(DOMAIN routes) >= 2
  /\ \E k \in DOMAIN routes :
       /\ Len(routes[k].path) = Cardinality(NodesOf(edges))
       /\ routes[k].path # sorted(routes[k].path)
       /\ routes[k].path \notin {initial_path[x] : x \in Instances}

\* C19: when the callers only call optimise() and update(), optimise()
\* enters the engine at most once for each key, and an entry of the route
\* cache, once stored, is never changed or removed.
C19_StoreOnce ==
  [][/\ \A x \in Instances :
          (pc[x] = "idle" /\ pc'[x] = "optimise")
            => RouteKey(heuristic_path[x]) \notin engineRuns
     /\ \A k \in DOMAIN routes :
          k \in DOMAIN routes' /\ routes'[k] = routes[k]]_vars

\* the (tour, cost) an instance holds
Result(x) == [path |-> heuristic_path[x], cost |-> heuristic_cost[x]]

\* both a and b missed the cache for the same key and ran the engine, the
\* store of b came last, and a holds a result that is not the cache entry
LostUpdate(a, b) ==
  /\ a # b /\ pc[a] = "idle" /\ pc[b] = "idle"
  /\ run[a].out /\ run[b].out
  /\ RouteKey(run[a].seed) = RouteKey(run[b].seed)
  /\ RouteKey(run[a].seed) \in engineRuns
  /\ routes[RouteKey(heuristic_path[b])] = Result(b)
  /\ RouteKey(heuristic_path[a]) = RouteKey(heuristic_path[b])
  /\ Result(a) # routes[RouteKey(heuristic_path[a])]

\* calls that run one after the other never lose an update
SequentialCallsLoseNoUpdate ==
  \A a \in Instances : \A b \in Instances : ~LostUpdate(a, b)

\* C20: when optimise() calls for the same key run interleaved, a lost
\* update (both missed, the engine ran twice, the later store replaced the
\* earlier one, one caller holds a result that is not the cache entry of its
\* key) happens only to calls of which one started while the other was
\* running: calls that run one after the other never produce it.
C20_LostUpdateNeedsInterleaving ==
  \A a \in Instances : \A b \in Instances :
    LostUpdate(a, b) => (run[a].overlap \/ run[b].overlap)

\* the lost update is reached: t1 holds a tour that the store of t2 replaced
C20_Witness ==
  \E a \in Instances : \E b \in Instances :
    /\ LostUpdate(a, b)
    /\ ~run[a].overlap /\ run[b].overlap
    /\ Cardinality(DOMAIN routes) = 1
    /\ heuristic_path[a] # heuristic_path[b]

TypeOK ==
  /\ edges \in Matrices
  /\ \A x \in Instances : pc[x] \in {"idle", "optimise", "_optimise"}

====
